---- MODULE Spec2Model ----
(***************************************************************************)
(* Windowed decomposition optimizer for job-shop scheduling.               *)
(*                                                                         *)
(* jobs     : job -> sequence of <<machine, duration>>                     *)
(* solution : job -> sequence of start times                               *)
(* Positions inside a job are 0-based as in the Python source; the TLA+    *)
(* sequences that hold them are 1-based, hence the "+ 1" at every access.  *)
(***************************************************************************)
EXTENDS Integers, Sequences, FiniteSets, TLC

-----------------------------------------------------------------------------
(* Bounds of the model *)

\* the `times` / `num_of_iterations` argument of the drivers
NumTimes == 2
\* largest window_size argument tried
MaxWindowSize == 3
\* how many of the latest yielded schedules the consumer still holds
MaxKept == 1
\* the largest model (number of binary variables) whose samples are enumerated
MaxVars == 4
\* the latest start time in the schedules handed to a function directly
MaxStart == 3

-----------------------------------------------------------------------------
(* Program constants *)

\* brute_force_greedy: max_time = get_result(jobs, solution) + 3
Margin == 3
\* brute_force_greedy: for i in range(10) -- the re-tries of solve_greedily
GreedyRetries == 10
\* solve_with_pbruteforce_new: max_time = solution.get_result() + 2
MarginNew == 2
\* get_jss_bqm: lagrange_one_hot=1, lagrange_precedence=1, lagrange_share=1
LagrangeOneHot == 1
LagrangePrecedence == 1
LagrangeShare == 1
\* get_bqm: bias = 2 * base**(end_time - self.max_time)
BiasFactor == 2
\* get_jss_dqm: lagrange_one_hot=1, lagrange_precedence=2, lagrange_share=1
DqmLagrangePrecedence == 2
DqmLagrangeShare == 1

-----------------------------------------------------------------------------
(* Generic helpers *)

Max(a, b) == IF a >= b THEN a ELSE b
Min(a, b) == IF a <= b THEN a ELSE b

SetMax(S) == CHOOSE x \in S : \A y \in S : y <= x
SetMin(S) == CHOOSE x \in S : \A y \in S : x <= y

RECURSIVE SeqSum(_)
SeqSum(s) == IF s = <<>> THEN 0 ELSE Head(s) + SeqSum(Tail(s))

\* all orderings of a finite set, as sequences
Perms(S) ==
    {p \in [1..Cardinality(S) -> S] : \A a, b \in DOMAIN p : p[a] = p[b] => a = b}

\* the elements of a finite set of integers in increasing order
RECURSIVE SortedSeq(_)
SortedSeq(S) ==
    IF S = {} THEN <<>> ELSE <<SetMin(S)>> \o SortedSeq(S \ {SetMin(S)})

-----------------------------------------------------------------------------
(* Accessors of an instance and a schedule *)

MachineOf(jobs, j, p) == jobs[j][p + 1][1]
DurationOf(jobs, j, p) == jobs[j][p + 1][2]
StartOf(solution, j, p) == solution[j][p + 1]
EndOf(jobs, solution, j, p) == StartOf(solution, j, p) + DurationOf(jobs, j, p)

\* every (job, position) of a schedule
OpsOf(solution) ==
    UNION {{<<j, p>> : p \in 0..(Len(solution[j]) - 1)} : j \in DOMAIN solution}

MachinesOf(jobs) ==
    {jobs[j][k][1] : <<j, k>> \in UNION {{<<j, k>> : k \in 1..Len(jobs[j])} : j \in DOMAIN jobs}}

-----------------------------------------------------------------------------
(* instance_parser.py: checkValidity, get_result *)

\* the first loop of checkValidity: order of operations inside every job
PrecedenceKept(jobs, solution) ==
    \A j \in DOMAIN jobs : \A p \in 0..(Len(jobs[j]) - 2) :
        ~(StartOf(solution, j, p) + DurationOf(jobs, j, p) > StartOf(solution, j, p + 1))

\* the checkValidity test of two entries of a machine with < for <=
NoMachineIntersection_Strict(jobs, solution) ==
    \A o1, o2 \in OpsOf(solution) :
        (o1 # o2 /\ MachineOf(jobs, o1[1], o1[2]) = MachineOf(jobs, o2[1], o2[2]))
        => (\/ EndOf(jobs, solution, o1[1], o1[2]) < StartOf(solution, o2[1], o2[2])
            \/ EndOf(jobs, solution, o2[1], o2[2]) < StartOf(solution, o1[1], o1[2]))

\* the second loop of checkValidity: pairs of entries of one machine's list
NoMachineIntersection(jobs, solution) ==
    \A o1, o2 \in OpsOf(solution) :
        (o1 # o2 /\ MachineOf(jobs, o1[1], o1[2]) = MachineOf(jobs, o2[1], o2[2]))
        => (\/ EndOf(jobs, solution, o1[1], o1[2]) <= StartOf(solution, o2[1], o2[2])
            \/ EndOf(jobs, solution, o2[1], o2[2]) <= StartOf(solution, o1[1], o1[2]))

\* checkValidity without its first loop (the order inside a job)
checkValidity_MachinesOnly(jobs, solution) ==
    NoMachineIntersection(jobs, solution)

checkValidity(jobs, solution) ==
    PrecedenceKept(jobs, solution) /\ NoMachineIntersection(jobs, solution)

get_result(jobs, solution) ==
    SetMax({0} \cup {EndOf(jobs, solution, j, Len(jobs[j]) - 1) : j \in DOMAIN jobs})

-----------------------------------------------------------------------------
(* instance_parser.py: find_time_window *)

\* the first branch taking every operation that overlaps the time window
Fits_Overlapping(jobs, solution, start, end, j, p) ==
    StartOf(solution, j, p) < end /\ EndOf(jobs, solution, j, p) > start

\* first branch: the operation fits into the time window
Fits(jobs, solution, start, end, j, p) ==
    StartOf(solution, j, p) >= start /\ EndOf(jobs, solution, j, p) <= end

\* second branch (elif): reaches out of the window on the right
ReachesRight(jobs, solution, start, end, j, p) ==
    /\ ~Fits(jobs, solution, start, end, j, p)
    /\ start <= StartOf(solution, j, p)
    /\ StartOf(solution, j, p) < end
    /\ EndOf(jobs, solution, j, p) > end

\* third branch (elif): reaches out of the window on the left
ReachesLeft(jobs, solution, start, end, j, p) ==
    /\ ~Fits(jobs, solution, start, end, j, p)
    /\ ~ReachesRight(jobs, solution, start, end, j, p)
    /\ StartOf(solution, j, p) < start
    /\ start < EndOf(jobs, solution, j, p)
    /\ EndOf(jobs, solution, j, p) <= end

\* operations_indexes: for every job with an operation that fits, the
\* original positions of those operations, in increasing order
operations_indexes(jobs, solution, start, end) ==
    LET inside(j) == {p \in 0..(Len(solution[j]) - 1) :
                        Fits(jobs, solution, start, end, j, p)}
    IN  [j \in {k \in DOMAIN solution : inside(k) # {}} |-> SortedSeq(inside(j))]

\* new_jobs: the sub-instance, its operations renumbered from 0
new_jobs_of(jobs, indexes) ==
    [j \in DOMAIN indexes |-> [k \in 1..Len(indexes[j]) |-> jobs[j][indexes[j][k] + 1]]]

\* disable_till keeping the smallest value of a machine
disable_till_Min(jobs, solution, start, end) ==
    LET ops(m) == {o \in OpsOf(solution) :
                     /\ MachineOf(jobs, o[1], o[2]) = m
                     /\ StartOf(solution, o[1], o[2]) < start
                     /\ start < EndOf(jobs, solution, o[1], o[2])
                     /\ EndOf(jobs, solution, o[1], o[2]) <= end}
    IN  [m \in {x \in MachinesOf(jobs) : ops(x) # {}} |->
            SetMin({EndOf(jobs, solution, o[1], o[2]) - start : o \in ops(m)})]

\* disable_till: defaultdict(int), a key only for a machine on which an
\* operation reaches out on the left
disable_till_of(jobs, solution, start, end) ==
    LET ops(m) == {o \in OpsOf(solution) :
                     /\ MachineOf(jobs, o[1], o[2]) = m
                     /\ ReachesLeft(jobs, solution, start, end, o[1], o[2])}
    IN  [m \in {x \in MachinesOf(jobs) : ops(x) # {}} |->
            SetMax({0} \cup {EndOf(jobs, solution, o[1], o[2]) - start : o \in ops(m)})]

\* disable_since: defaultdict(lambda: inf), a key only for a machine on
\* which an operation reaches out on the right
disable_since_of(jobs, solution, start, end) ==
    LET ops(m) == {o \in OpsOf(solution) :
                     /\ MachineOf(jobs, o[1], o[2]) = m
                     /\ ReachesRight(jobs, solution, start, end, o[1], o[2])}
    IN  [m \in {x \in MachinesOf(jobs) : ops(x) # {}} |->
            SetMin({StartOf(solution, o[1], o[2]) - start : o \in ops(m)})]

\* disabled_variables: pairs (label, local time); the label "job_position"
\* is kept as the pair <<job, position>> it is formatted from.  The right
\* branch labels the predecessor with its position i - 1 in the FULL job,
\* the left branch labels the successor with position 0.
disabled_variables_of(jobs, solution, start, end) ==
    LET right == {o \in OpsOf(solution) :
                    ReachesRight(jobs, solution, start, end, o[1], o[2]) /\ o[2] > 0}
        left  == {o \in OpsOf(solution) :
                    /\ ReachesLeft(jobs, solution, start, end, o[1], o[2])
                    /\ o[2] < Len(solution[o[1]]) - 1}
    IN  UNION {{<<<<o[1], o[2] - 1>>, x - start>> :
                  x \in (StartOf(solution, o[1], o[2])
                           - DurationOf(jobs, o[1], o[2] - 1) + 1)..(end - 1)} : o \in right}
        \cup
        UNION {{<<<<o[1], 0>>, x>> :
                  x \in 0..(EndOf(jobs, solution, o[1], o[2]) - start - 1)} : o \in left}

find_time_window(jobs, solution, start, end) ==
    LET idx == operations_indexes(jobs, solution, start, end)
    IN  [new_jobs           |-> new_jobs_of(jobs, idx),
         indexes            |-> idx,
         disable_till       |-> disable_till_of(jobs, solution, start, end),
         disable_since      |-> disable_since_of(jobs, solution, start, end),
         disabled_variables |-> disabled_variables_of(jobs, solution, start, end)]

-----------------------------------------------------------------------------
(* instance_parser.py: solve_greedily *)

\* max_time: the sum of all durations of the instance
TotalDuration(jobs) ==
    LET RECURSIVE sum(_)
        sum(S) == IF S = {} THEN 0
                  ELSE LET j == CHOOSE x \in S : TRUE
                       IN  SeqSum([k \in 1..Len(jobs[j]) |-> jobs[j][k][2]]) + sum(S \ {j})
    IN  sum(DOMAIN jobs)

\* FirstSpace without the end of the job's previous operation
RECURSIVE FirstSpace_IgnoreReady(_, _, _, _)
FirstSpace_IgnoreReady(spaces, k, ready, length) ==
    IF k > Len(spaces) THEN 0
    ELSE IF spaces[k][2] - spaces[k][1] >= length THEN k
    ELSE FirstSpace_IgnoreReady(spaces, k + 1, ready, length)

\* the index of the first free space, from index k on, that the operation
\* fits into (the condition of the two branches of the inner loop), 0 if none
RECURSIVE FirstSpace(_, _, _, _)
FirstSpace(spaces, k, ready, length) ==
    IF k > Len(spaces) THEN 0
    ELSE IF spaces[k][2] - Max(spaces[k][1], ready) >= length THEN k
    ELSE FirstSpace(spaces, k + 1, ready, length)

\* PlaceOperation taking the last free space of the machine
PlaceOperation_LastSpace(jobs, st, name, i) ==
    LET machine == MachineOf(jobs, name, i)
        length  == DurationOf(jobs, name, i)
        spaces  == st.free_space[machine]
        ready   == IF i = 0 THEN 0
                   ELSE st.solution[name][i] + DurationOf(jobs, name, i - 1)
        space   == spaces[Len(spaces)]
        startpoint == Max(space[1], ready)
    IN  [free_space |-> [st.free_space EXCEPT ![machine] =
                            SubSeq(spaces, 1, Len(spaces) - 1)
                            \o <<<<space[1], startpoint>>, <<startpoint + length, space[2]>>>>],
         solution   |-> [st.solution EXCEPT ![name] = Append(@, startpoint)]]

\* one iteration of the body "for name, operations in jobs_shuffled" for
\* position i: st = [free_space, solution]
PlaceOperation(jobs, st, name, i) ==
    LET machine == MachineOf(jobs, name, i)
        length  == DurationOf(jobs, name, i)
        spaces  == st.free_space[machine]
        \* i == 0 compares space[1] - space[0]; i > 0 compares against the
        \* end of the job's previous operation
        ready   == IF i = 0 THEN 0
                   ELSE st.solution[name][i] + DurationOf(jobs, name, i - 1)
        k       == IF i = 0
                   THEN FirstSpace(spaces, 1, 0, length)
                   ELSE FirstSpace(spaces, 1, ready, length)
        space   == spaces[k]
        startpoint == IF i = 0 THEN space[1] ELSE Max(space[1], ready)
        before  == SubSeq(spaces, 1, k - 1)
        after   == SubSeq(spaces, k + 1, Len(spaces))
        split   == IF i = 0
                   THEN <<<<space[1] + length, space[2]>>>>
                   ELSE <<<<space[1], startpoint>>, <<startpoint + length, space[2]>>>>
    IN  IF k = 0 THEN st
        ELSE [free_space |-> [st.free_space EXCEPT ![machine] = before \o split \o after],
              solution   |-> [st.solution EXCEPT ![name] = Append(@, startpoint)]]

\* the two nested loops: position i, then the jobs in shuffled order
RECURSIVE GreedyLoop(_, _, _, _, _)
GreedyLoop(jobs, order, st, i, n) ==
    IF i >= SetMax({0} \cup {Len(jobs[j]) : j \in DOMAIN jobs}) THEN st
    ELSE IF n > Len(order) THEN GreedyLoop(jobs, order, st, i + 1, 1)
    ELSE IF i >= Len(jobs[order[n]]) THEN GreedyLoop(jobs, order, st, i, n + 1)
    ELSE GreedyLoop(jobs, order, PlaceOperation(jobs, st, order[n], i), i, n + 1)

\* solve_greedily with jobs_shuffled = order (random.shuffle picks it)
solve_greedily(jobs, order) ==
    GreedyLoop(jobs, order,
               [free_space |-> [m \in MachinesOf(jobs) |-> <<<<0, TotalDuration(jobs)>>>>],
                solution   |-> [j \in DOMAIN jobs |-> <<>>]],
               0, 1).solution

-----------------------------------------------------------------------------
(* pyqubo_scheduler.py / dqm_scheduler.py: JobShopScheduler                *)
(*                                                                         *)
(* A label of pyqubo_scheduler, the string "job_position,time", is the     *)
(* triple <<job, position, time>>; a label of dqm_scheduler and of         *)
(* find_time_window, the string "job_position", is the pair                *)
(* <<job, position>>.                                                      *)

\* _process_data: the Task objects, job after job, positions counted from 0
RECURSIVE TasksOf(_, _)
TasksOf(job_dict, D) ==
    IF D = {} THEN <<>>
    ELSE LET j == SetMin(D)
         IN  [k \in 1..Len(job_dict[j]) |->
                 [job |-> j, position |-> k - 1,
                  machine |-> job_dict[j][k][1], duration |-> job_dict[j][k][2]]]
             \o TasksOf(job_dict, D \ {j})

\* _process_data: last_task_indices, as indices into the 1-based tasks
LastTaskIndices(tasks) ==
    {k \in DOMAIN tasks : k = Len(tasks) \/ tasks[k + 1].job # tasks[k].job}

\* predecessor_time when the first loop of _remove_absurd_times reaches tasks[k]
PredecessorTime(tasks, k) ==
    SeqSum([n \in 1..(k - 1) |->
              IF tasks[n].job = tasks[k].job THEN tasks[n].duration ELSE 0])

\* successor_time counted from 0 instead of -1
SuccessorTime_FromZero(tasks, k) ==
    SeqSum([n \in 1..Len(tasks) |->
              IF n >= k /\ tasks[n].job = tasks[k].job THEN tasks[n].duration ELSE 0])

\* successor_time after "successor_time += task.duration" for tasks[k]
SuccessorTime(tasks, k) ==
    SeqSum([n \in 1..Len(tasks) |->
              IF n >= k /\ tasks[n].job = tasks[k].job THEN tasks[n].duration ELSE 0]) - 1

\* "Times that are too early for task" and "Times that are too late for task"
TooEarlyOrLate(tasks, max_t) ==
    UNION {{<<tasks[k].job, tasks[k].position, t>> :
              t \in 0..(PredecessorTime(tasks, k) - 1)} : k \in DOMAIN tasks}
    \cup
    UNION {{<<tasks[k].job, tasks[k].position, (max_t - 1) - t>> :
              t \in 0..(SuccessorTime(tasks, k) - 1)} : k \in DOMAIN tasks}

\* "Times that are interfering with disabled regions": the if / elif
DisabledRegions(tasks, max_t, disable_till, disable_since) ==
    UNION {IF tasks[k].machine \in DOMAIN disable_till
           THEN {<<tasks[k].job, tasks[k].position, t>> :
                   t \in 0..(disable_till[tasks[k].machine] - 1)}
           ELSE IF tasks[k].machine \in DOMAIN disable_since
           THEN {<<tasks[k].job, tasks[k].position, t>> :
                   t \in disable_since[tasks[k].machine]..(max_t - 1)}
           ELSE {} : k \in DOMAIN tasks}

\* pyqubo_scheduler._remove_absurd_times: self.absurd_times.  The entries of
\* disabled_variables are added as they come; find_time_window gives pairs
\* ("job_position", time), which are no label string, so they are kept apart
\* in `pairs` and a label is looked up among `labels` only.
remove_absurd_times(tasks, max_t, disable_till, disable_since, disabled_variables) ==
    [labels |-> TooEarlyOrLate(tasks, max_t)
                \cup DisabledRegions(tasks, max_t, disable_till, disable_since),
     pairs  |-> disabled_variables]

\* "label in self.absurd_times" for the label of (task, t)
IsAbsurd(absurd, task, t) == <<task.job, task.position, t>> \in absurd.labels

\* self.H_vars once get_bqm has run: a Binary for every label of
\* range(self.max_time) that is not absurd
H_vars_of(tasks, max_t, absurd) ==
    UNION {{<<tasks[k].job, tasks[k].position, t>> : t \in 0..(max_t - 1)} :
             k \in DOMAIN tasks} \ absurd.labels

\* the times at which an assignment (the set of labels set to 1) starts a task
ActiveTimes(A, task, max_t) ==
    {t \in 0..(max_t - 1) : <<task.job, task.position, t>> \in A}

\* _add_one_start_constraint: the sum of lagrange_one_hot * (1 - H_term) ** 2
OneStartPenalty(tasks, max_t, A) ==
    SeqSum([k \in DOMAIN tasks |->
              LagrangeOneHot * (1 - Cardinality(ActiveTimes(A, tasks[k], max_t)))
                             * (1 - Cardinality(ActiveTimes(A, tasks[k], max_t)))])

\* _add_precedence_constraint: a product var1 * var2 for a task at t and the
\* next task of its job at tt in range(min(t + duration, max_time))
PrecedencePairs(tasks, max_t, A) ==
    {<<k, t, tt>> \in (DOMAIN tasks) \X (0..(max_t - 1)) \X (0..(max_t - 1)) :
        /\ k < Len(tasks)
        /\ tasks[k].job = tasks[k + 1].job
        /\ t \in ActiveTimes(A, tasks[k], max_t)
        /\ tt \in ActiveTimes(A, tasks[k + 1], max_t)
        /\ tt < Min(t + tasks[k].duration, max_t)}

\* _add_share_machine_constraint: a product var1 * var2 for every ordered
\* pair (task, other_task) of one machine, task at t and other_task at tt in
\* range(t, min(t + task.duration, max_time))
SharePairs(tasks, max_t, A) ==
    {<<k, n, t, tt>> \in (DOMAIN tasks) \X (DOMAIN tasks) \X (0..(max_t - 1)) \X (0..(max_t - 1)) :
        /\ k # n
        /\ tasks[k].machine = tasks[n].machine
        /\ t \in ActiveTimes(A, tasks[k], max_t)
        /\ tt \in ActiveTimes(A, tasks[n], max_t)
        /\ t <= tt
        /\ tt < Min(t + tasks[k].duration, max_t)}

\* a base that does not grow with the number of jobs
BiasBase_One(tasks) == 1

\* base = len(self.last_task_indices) + 1
BiasBase(tasks) == Cardinality(LastTaskIndices(tasks)) + 1

\* get_bqm: the biases 2 * base**(end_time - max_time) of the last tasks,
\* multiplied by base**max_time to stay in the integers
MakespanBias(tasks, max_t, A) ==
    SeqSum([k \in DOMAIN tasks |->
              IF k \in LastTaskIndices(tasks)
              THEN SeqSum([n \in 1..max_t |->
                             IF /\ (n - 1) + tasks[k].duration <= max_t
                                /\ (n - 1) \in ActiveTimes(A, tasks[k], max_t)
                             THEN BiasFactor * BiasBase(tasks) ^ ((n - 1) + tasks[k].duration)
                             ELSE 0])
              ELSE 0])

\* the value of self.H on an assignment of the variables of H_vars,
\* multiplied by base**max_time
Energy(tasks, max_t, A) ==
    (BiasBase(tasks) ^ max_t)
        * ( OneStartPenalty(tasks, max_t, A)
          + LagrangePrecedence * Cardinality(PrecedencePairs(tasks, max_t, A))
          + LagrangeShare * Cardinality(SharePairs(tasks, max_t, A)) )
    + MakespanBias(tasks, max_t, A)

\* the Task with the label "job_position"
TaskAt(tasks, job, position) ==
    tasks[CHOOSE k \in DOMAIN tasks : tasks[k].job = job /\ tasks[k].position = position]

\* precedence_terms with the next task's times running to t + duration included
precedence_terms_Inclusive(tasks, max_t, absurd) ==
    {<<k, t, tt>> \in (DOMAIN tasks) \X (0..(max_t - 1)) \X (0..(max_t - 1)) :
        /\ k < Len(tasks)
        /\ tasks[k].job = tasks[k + 1].job
        /\ ~IsAbsurd(absurd, tasks[k], t)
        /\ tt < Min(t + tasks[k].duration + 1, max_t)
        /\ ~IsAbsurd(absurd, tasks[k + 1], tt)}

\* _add_precedence_constraint: the products var1 * var2 added to self.H,
\* <<k, t, tt>> for tasks[k] at t and tasks[k + 1] at tt; each is added
\* once, with the coefficient lagrange_precedence
precedence_terms(tasks, max_t, absurd) ==
    {<<k, t, tt>> \in (DOMAIN tasks) \X (0..(max_t - 1)) \X (0..(max_t - 1)) :
        /\ k < Len(tasks)
        /\ tasks[k].job = tasks[k + 1].job
        /\ ~IsAbsurd(absurd, tasks[k], t)
        /\ tt < Min(t + tasks[k].duration, max_t)
        /\ ~IsAbsurd(absurd, tasks[k + 1], tt)}

\* share_terms penalising equal start times only
share_terms_SameStart(tasks, max_t, absurd) ==
    {<<k, n, t, tt>> \in (DOMAIN tasks) \X (DOMAIN tasks) \X (0..(max_t - 1)) \X (0..(max_t - 1)) :
        /\ k # n
        /\ tasks[k].machine = tasks[n].machine
        /\ ~IsAbsurd(absurd, tasks[k], t)
        /\ t = tt
        /\ ~IsAbsurd(absurd, tasks[n], tt)}

\* _add_share_machine_constraint: the products var1 * var2 added to self.H,
\* <<k, n, t, tt>> for task = tasks[k] at t and other_task = tasks[n] at tt;
\* each is added once, with the coefficient lagrange_share
share_terms(tasks, max_t, absurd) ==
    {<<k, n, t, tt>> \in (DOMAIN tasks) \X (DOMAIN tasks) \X (0..(max_t - 1)) \X (0..(max_t - 1)) :
        /\ k # n
        /\ tasks[k].machine = tasks[n].machine
        /\ ~IsAbsurd(absurd, tasks[k], t)
        /\ t <= tt
        /\ tt < Min(t + tasks[k].duration, max_t)
        /\ ~IsAbsurd(absurd, tasks[n], tt)}

\* the makespan biases without the test "if label in self.absurd_times"
makespan_biases_Unpruned(tasks, max_t, absurd) ==
    LET biased == {p \in LastTaskIndices(tasks) \X (0..(max_t - 1)) :
                     p[2] + tasks[p[1]].duration <= max_t}
    IN  [l \in {<<tasks[p[1]].job, tasks[p[1]].position, p[2]>> : p \in biased} |->
            BiasFactor * BiasBase(tasks) ^ (l[3] + TaskAt(tasks, l[1], l[2]).duration)]

\* get_bqm: the bias 2 * base**(end_time - max_time) of each variable of a
\* last task, multiplied by base**max_time
makespan_biases(tasks, max_t, absurd) ==
    LET biased == {p \in LastTaskIndices(tasks) \X (0..(max_t - 1)) :
                     /\ p[2] + tasks[p[1]].duration <= max_t
                     /\ ~IsAbsurd(absurd, tasks[p[1]], p[2])}
    IN  [l \in {<<tasks[p[1]].job, tasks[p[1]].position, p[2]>> : p \in biased} |->
            BiasFactor * BiasBase(tasks) ^ (l[3] + TaskAt(tasks, l[1], l[2]).duration)]

\* the keys self.H_vars holds after _add_one_start_constraint,
\* _add_precedence_constraint, _add_share_machine_constraint and the bias
\* loop of get_bqm: every step makes a Binary for a label it meets that is
\* not in absurd_times and not yet in H_vars
get_bqm_steps(tasks, max_t, absurd) ==
    LET one_start  == H_vars_of(tasks, max_t, absurd)
        precedence ==
            {<<tasks[k].job, tasks[k].position, t>> :
                <<k, t>> \in {q \in (DOMAIN tasks) \X (0..(max_t - 1)) :
                                /\ q[1] < Len(tasks)
                                /\ tasks[q[1]].job = tasks[q[1] + 1].job
                                /\ ~IsAbsurd(absurd, tasks[q[1]], q[2])}}
            \cup {<<tasks[e[1] + 1].job, tasks[e[1] + 1].position, e[3]>> :
                    e \in precedence_terms(tasks, max_t, absurd)}
        share ==
            {<<tasks[k].job, tasks[k].position, t>> :
                <<k, t>> \in {q \in (DOMAIN tasks) \X (0..(max_t - 1)) :
                                /\ \E n \in DOMAIN tasks :
                                      n # q[1] /\ tasks[n].machine = tasks[q[1]].machine
                                /\ ~IsAbsurd(absurd, tasks[q[1]], q[2])}}
            \cup {<<tasks[e[2]].job, tasks[e[2]].position, e[4]>> :
                    e \in share_terms(tasks, max_t, absurd)}
        bias == DOMAIN makespan_biases(tasks, max_t, absurd)
    IN  <<one_start,
          one_start \cup precedence,
          one_start \cup precedence \cup share,
          one_start \cup precedence \cup share \cup bias>>

\* dqm _add_precedence_constraint: the entries [t][tt] of
\* self.biases[(lct, lnt)] that receive lagrange_precedence, as <<k, t, tt>>
dqm_precedence_entries(tasks, max_t) ==
    {<<k, t, tt>> \in (DOMAIN tasks) \X (0..(max_t - 1)) \X (0..(max_t - 1)) :
        /\ k < Len(tasks)
        /\ tasks[k].job = tasks[k + 1].job
        /\ tt < Min(t + tasks[k].duration, max_t)}

\* dqm _add_share_machine_constraint: the entries of self.biases[(lt1, lt2)]
\* that receive lagrange_share, as <<k, n, case of tasks[k], case of tasks[n]>>
\* for the combinations k < n
dqm_share_entries(tasks, max_t) ==
    {<<k, n, a, b>> \in (DOMAIN tasks) \X (DOMAIN tasks) \X (0..(max_t - 1)) \X (0..(max_t - 1)) :
        /\ k < n
        /\ tasks[k].machine = tasks[n].machine
        /\ \/ a <= b /\ b < Min(a + tasks[k].duration, max_t)
           \/ b + 1 <= a /\ a < Min(b + tasks[n].duration, max_t)}

\* get_dqm: the bias 2 * base**(end_time - max_time) added to
\* self.biases[label][t] of a last task, multiplied by base**max_time
dqm_makespan_biases(tasks, max_t) ==
    makespan_biases(tasks, max_t, [labels |-> {}, pairs |-> {}])

\* dqm_scheduler._remove_absurd_times: the (label, time) entries of the
\* linear biases that received lagrange_absurd.  self.biases[label][int(t)]
\* is a numpy row: a negative index counts from the end, an unknown label
\* is a KeyError and an index outside the row an IndexError.
dqm_remove_absurd_times(tasks, max_t, disable_till, disable_since, disabled_variables) ==
    LET known == {<<tasks[k].job, tasks[k].position>> : k \in DOMAIN tasks}
        inrow(t) == t >= 0 - max_t /\ t <= max_t - 1
        region == TooEarlyOrLate(tasks, max_t)
                  \cup DisabledRegions(tasks, max_t, disable_till, disable_since)
    IN  IF \E d \in disabled_variables : d[1] \notin known
        THEN [error |-> "KeyError", penalised |-> {}]
        ELSE IF (\E d \in disabled_variables : ~inrow(d[2]))
                \/ (\E l \in region : ~inrow(l[3]))
        THEN [error |-> "IndexError", penalised |-> {}]
        ELSE [error |-> "none",
              penalised |->
                 {<<l[1], l[2], IF l[3] < 0 THEN l[3] + max_t ELSE l[3]>> : l \in region}
                 \cup
                 {<<d[1][1], d[1][2], IF d[2] < 0 THEN d[2] + max_t ELSE d[2]>> :
                    d \in disabled_variables}]

-----------------------------------------------------------------------------
(* The instances and the caller's schedules the drivers are started on *)

\* the 3 jobs / 3 machines scenario
Jobs3x3 ==
    << << <<0, 2>>, <<1, 1>>, <<0, 1>> >>,
       << <<1, 1>>, <<0, 1>>, <<2, 2>> >>,
       << <<2, 1>>, <<2, 1>>, <<1, 1>> >> >>

\* a single job with a single operation
Jobs1x1 == << << <<0, 1>> >> >>

\* an operation longer than every window
JobsLong == << << <<0, 5>> >> >>

\* two jobs crossing two machines
Jobs2x2 ==
    << << <<0, 1>>, <<1, 1>> >>,
       << <<1, 1>>, <<0, 1>> >> >>

\* two jobs on one machine, one long operation
Jobs2x1 ==
    << << <<0, 1>>, <<1, 2>> >>,
       << <<0, 2>> >> >>

GreedySeeds(jobs) == {solve_greedily(jobs, o) : o \in Perms(DOMAIN jobs)}

\* valid schedules with idle time left in them
LooseSeeds(jobs) ==
    IF jobs = Jobs2x2 THEN { << <<0, 2>>, <<1, 3>> >> }
    ELSE IF jobs = Jobs2x1 THEN { << <<2, 3>>, <<0>> >>, << <<0, 3>>, <<1>> >> }
    ELSE {}

\* a single job of two operations
Jobs1x2 == << << <<0, 1>>, <<1, 1>> >> >>

\* two single-operation jobs sharing a machine
Jobs2s == << << <<0, 1>> >>, << <<0, 2>> >> >>

\* three single-operation jobs sharing a machine
Jobs3s == << << <<0, 2>> >>, << <<0, 1>> >>, << <<0, 2>> >> >>

\* the operations (machine, duration) the generated instances are made of
OpKinds == {0, 1} \X {1, 2, 3}

\* the numbers of operations of the jobs of the generated instances
GenShapes == {<<1>>, <<2>>, <<1, 1>>, <<1, 2>>, <<2, 1>>, <<1, 1, 1>>}

\* the shapes find_time_window is called on
WindowShapes == {<<1>>, <<2>>, <<1, 1>>, <<2, 1>>}
GreedyShapes == GenShapes \cup {<<2, 2>>}

\* every instance whose jobs have the numbers of operations of a shape
GenInstances(shapes) ==
    UNION {{inst \in [DOMAIN shape -> UNION {[1..n -> OpKinds] : n \in 1..2}] :
              \A j \in DOMAIN shape : Len(inst[j]) = shape[j]} : shape \in shapes}

\* every assignment of a start time in 0..MaxStart to every operation
GenSchedules(inst) ==
    {sol \in [DOMAIN inst -> UNION {[1..n -> 0..MaxStart] : n \in 1..2}] :
        \A j \in DOMAIN inst : Len(sol[j]) = Len(inst[j])}

\* job data a caller may hand to Instance(instance=..., max_time=...):
\* also jobs without operations and durations that are not positive
BuildKinds == {0, 1} \X {-1, 0, 1, 2}
BuildShapes == {<<>>, <<0>>, <<1>>, <<2>>, <<1, 0>>, <<1, 1>>}
BuildInputs ==
    UNION {{inst \in [DOMAIN shape -> UNION {[1..n -> BuildKinds] : n \in 0..2}] :
              \A j \in DOMAIN shape : Len(inst[j]) = shape[j]} : shape \in BuildShapes}

\* schedules as __extract_solution_from_sample returns them: -1 marks an
\* operation without a selected start
DecodedSchedules(inst) ==
    {sol \in [DOMAIN inst -> UNION {[1..n -> -1..MaxStart] : n \in 1..2}] :
        \A j \in DOMAIN inst : Len(sol[j]) = Len(inst[j])}

\* the instances the encoders are called on
EncInstances == {Jobs1x1, Jobs1x2, Jobs2s, Jobs2x1, Jobs3s}

\* the instances the sampled drivers are run on
SmallInstances == {Jobs1x1, Jobs1x2}
Instances == SmallInstances \cup {Jobs2s, Jobs2x2, Jobs2x1, Jobs3x3, JobsLong}

WindowSizes == 2..MaxWindowSize

-----------------------------------------------------------------------------
(* State of a driver run *)

VARIABLES
    driver,            \* which generator runs: "greedy", "pbf" or "new"
    jobs,              \* the instance (read-only)
    window_size,       \* argument window_size
    max_time,          \* local max_time, computed once before the loops
    heap,              \* the live schedule objects: heap[r] is the value of object r
    solution,          \* local `solution`: a reference into heap
    yielded,           \* the latest values yielded: [solution |-> ref, i |-> i]
    iteration_number,  \* the outer loop variable
    todo,              \* window positions the inner for loop has not visited
    i,                 \* the Python variable i as the loop body leaves it
    pc,                \* "run", "done" (generator exhausted), "raised"
    last,              \* the window tried by the latest step (history)
    pass_committed,    \* a window of the running pass was committed (history)
    stage,             \* encoders: "idle", "input", "bqm", "dqm", "sampled",
                       \* "decoded", "raised"
    problem,           \* the arguments of get_jss_bqm / get_jss_dqm
    absurd_times,      \* pyqubo JobShopScheduler.absurd_times
    H_vars,            \* pyqubo JobShopScheduler.H_vars (the labels)
    dqm_absurd,        \* what dqm _remove_absurd_times did to the biases
    sample,            \* the labels a sample sets to 1
    H,                 \* pyqubo JobShopScheduler.H: the products and biases added
    biases,            \* dqm JobShopScheduler.biases: the entries added
    extracted,         \* task_times decoded from the sample (-1: no start)
    H_vars_after,      \* the keys of H_vars after each step of get_bqm (history)
    call,              \* a direct call of a function: its name and arguments
    result             \* what that call returned

encvars == <<stage, problem, absurd_times, H_vars, dqm_absurd, sample, H, biases,
             extracted, H_vars_after>>

fnvars == <<call, result>>

vars == <<driver, jobs, window_size, max_time, heap, solution, yielded,
          iteration_number, todo, i, pc, last, pass_committed, encvars, fnvars>>

\* object 1 is the schedule the caller passed in
CallerSchedule == 1

NoWindow ==
    [start |-> -1, outcome |-> "none", indexes |-> <<>>, task_times |-> <<>>,
     before |-> <<>>, sol_found |-> <<>>]

\* range(max_time - window_size)
WindowPositions(mt, ws) == 0..(mt - ws - 1)

-----------------------------------------------------------------------------
(* Pieces of the drivers' loop bodies *)

\* "improving original solution": the two nested loops that write
\* task_times[job][j] + i into sol_found[job][indexes[job][j]]
\* the merge writing to sol_found[job][j] instead of sol_found[job][indexes[job][j]]
Merge_LocalIndex(sol, task_times, indexes, shift) ==
    [j \in DOMAIN sol |->
        IF j \in DOMAIN task_times
        THEN [k \in 1..Len(sol[j]) |->
                IF k <= Len(task_times[j]) THEN task_times[j][k] + shift ELSE sol[j][k]]
        ELSE sol[j]]

Merge(sol, task_times, indexes, shift) ==
    [j \in DOMAIN sol |->
        IF j \in DOMAIN task_times
        THEN [k \in 1..Len(sol[j]) |->
                IF \E n \in 1..Len(task_times[j]) : indexes[j][n] + 1 = k
                THEN task_times[j][CHOOSE n \in 1..Len(task_times[j]) :
                                       indexes[j][n] + 1 = k] + shift
                ELSE sol[j][k]]
        ELSE sol[j]]

\* a reference no live object has
FreshRef(h) == SetMin({r \in 1..(Cardinality(DOMAIN h) + 1) : r \notin DOMAIN h})

\* sol_found = solution, without the deepcopy
SolFound_Alias(h, ref) == ref

\* sol_found = deepcopy(solution): the reference of the object sol_found names
SolFound(h, ref) == FreshRef(h)

\* writing value v into object r
Store(h, r, v) == (r :> v) @@ h

\* The driver holds one reference, `solution`; the consumer holds the
\* schedule it passed in and the latest MaxKept yields.  Objects nobody
\* refers to any more leave the heap.
Keep(yld) == IF Len(yld) > MaxKept THEN Tail(yld) ELSE yld
Collect(h, yld, ref) ==
    LET live == {CallerSchedule, ref} \cup {yld[k].solution : k \in DOMAIN yld}
    IN  [r \in DOMAIN h \cap live |-> h[r]]

\* task_times after the retries of brute_force_greedy: the first result,
\* replaced by a later one only when that one is strictly shorter
KeepBetter(new_jobs, task_times, new_task_times) ==
    IF get_result(new_jobs, new_task_times) < get_result(new_jobs, task_times)
    THEN new_task_times ELSE task_times

\* the value of i after "for i in range(10)"
InnerLoopLast == GreedyRetries - 1

\* sampleset.first.sample of the discrete model, decoded into task_times:
\* one value of range(max_time) for every operation of the sub-instance
RECURSIVE SampleTimes(_, _, _)
SampleTimes(new_jobs, D, horizon) ==
    IF D = {} THEN {<<>>}
    ELSE LET j == CHOOSE x \in D : TRUE
         IN  {(j :> t) @@ f :
                t \in [1..Len(new_jobs[j]) -> 0..(horizon - 1)],
                f \in SampleTimes(new_jobs, D \ {j}, horizon)}

\* the loop body ending in "break" instead of falling through
Advance_Break(w) ==
    /\ iteration_number' = iteration_number + 1
    /\ IF iteration_number + 1 < NumTimes
       THEN todo' = WindowPositions(max_time, window_size) /\ pc' = "run"
       ELSE todo' = {} /\ pc' = "done"

\* the history of the running pass after a step that committed or not
PassHistory(committed) ==
    pass_committed' = IF iteration_number' # iteration_number THEN FALSE
                      ELSE pass_committed \/ committed

\* leaving the body of the inner for loop for window position w
Advance(w) ==
    IF todo \ {w} # {}
    THEN /\ todo' = todo \ {w}
         /\ UNCHANGED <<iteration_number, pc>>
    ELSE /\ iteration_number' = iteration_number + 1
         /\ IF iteration_number + 1 < NumTimes
            THEN todo' = WindowPositions(max_time, window_size) /\ pc' = "run"
            ELSE todo' = {} /\ pc' = "done"

\* an exception caught by the handler around the inner loop: "continue"
\* with the next iteration_number
AbandonPass ==
    /\ iteration_number' = iteration_number + 1
    /\ IF iteration_number + 1 < NumTimes
       THEN todo' = WindowPositions(max_time, window_size) /\ pc' = "run"
       ELSE todo' = {} /\ pc' = "done"

-----------------------------------------------------------------------------
(* Initial states: a driver generator created on a valid schedule *)

MarginOf(d) == IF d = "new" THEN MarginNew ELSE Margin

NoProblem ==
    [job_dict |-> <<>>, max_time |-> 0, disable_till |-> <<>>, disable_since |-> <<>>,
     disabled_variables |-> {}, indexes |-> <<>>, start |-> -1]

NoAbsurd == [labels |-> {}, pairs |-> {}]

NoDqm == [error |-> "none", penalised |-> {}]

\* self.H = 0 / self.biases = {}: nothing added yet
NoTerms == [precedence |-> {}, share |-> {}, makespan |-> <<>>]

\* no encoder has been called
EncIdle ==
    /\ stage = "idle"
    /\ problem = NoProblem
    /\ absurd_times = NoAbsurd
    /\ H_vars = {}
    /\ dqm_absurd = NoDqm
    /\ sample = {}
    /\ H = NoTerms
    /\ biases = NoTerms
    /\ extracted = <<>>
    /\ H_vars_after = <<>>

NoCall ==
    [fn |-> "none", jobs |-> <<>>, solution |-> <<>>, order |-> <<>>,
     start |-> 0, end |-> 0, max_time |-> 0]

\* no function has been called directly
FnIdle == call = NoCall /\ result = <<>>

Init ==
    /\ EncIdle
    /\ FnIdle
    /\ driver \in {"greedy", "pbf", "new"}
    /\ jobs \in (IF driver = "greedy" THEN Instances ELSE SmallInstances)
    /\ window_size \in WindowSizes
    /\ \E seed \in GreedySeeds(jobs) \cup LooseSeeds(jobs) :
          /\ heap = (CallerSchedule :> seed)
          /\ max_time = get_result(jobs, seed) + MarginOf(driver)
    /\ solution = CallerSchedule
    /\ yielded = <<>>
    /\ iteration_number = 0
    /\ todo = WindowPositions(max_time, window_size)
    /\ i = -1
    /\ pc = IF WindowPositions(max_time, window_size) = {} THEN "done" ELSE "run"
    /\ last = NoWindow
    /\ pass_committed = FALSE

-----------------------------------------------------------------------------
(* brute_force_greedy: one iteration of "for i in range(max_time - window_size)" *)

GreedyWindow ==
    /\ driver = "greedy"
    /\ pc = "run"
    /\ LET w    == SetMin(todo)
           info == find_time_window(jobs, heap[solution], w, w + window_size)
       IN  /\ Advance(w)
           /\ IF DOMAIN info.new_jobs = {}
              THEN \* if not bool(new_jobs): continue
                   /\ i' = w
                   /\ last' = [NoWindow EXCEPT !.start = w, !.outcome = "empty",
                                              !.before = heap[solution]]
                   /\ PassHistory(FALSE)
                   /\ UNCHANGED <<heap, solution, yielded>>
              ELSE \E first, retry \in GreedySeeds(info.new_jobs) :
                   LET task_times == KeepBetter(info.new_jobs, first, retry)
                       r          == SolFound(heap, solution)
                       sol_found  == Merge(heap[solution], task_times, info.indexes,
                                           InnerLoopLast)
                       valid      == checkValidity(jobs, sol_found)
                   IN  /\ i' = InnerLoopLast
                       /\ PassHistory(valid)
                       /\ solution' = IF valid THEN r ELSE solution
                       /\ yielded' = IF valid
                                     THEN Keep(Append(yielded, [solution |-> r, i |-> i']))
                                     ELSE yielded
                       /\ heap' = Collect(Store(heap, r, sol_found), yielded', solution')
                       /\ last' = [start      |-> w,
                                   outcome    |-> IF valid THEN "committed" ELSE "invalid",
                                   indexes    |-> info.indexes,
                                   task_times |-> task_times,
                                   before     |-> heap[solution],
                                   sol_found  |-> sol_found]
    /\ UNCHANGED <<driver, jobs, window_size, max_time, encvars, fnvars>>

-----------------------------------------------------------------------------
(* solve_with_pbruteforce (the text kept in partial_brute_force.py, which  *)
(* charts.py imports): one iteration of the loop over the sampled frames   *)

PbfWindow ==
    /\ driver = "pbf"
    /\ pc = "run"
    /\ \E w \in todo :
       LET info == find_time_window(jobs, heap[solution], w, w + window_size)
       IN  IF DOMAIN info.new_jobs = {}
           THEN \* if not bool(new_jobs): continue
                /\ Advance(w)
                /\ i' = w
                /\ PassHistory(FALSE)
                /\ last' = [NoWindow EXCEPT !.start = w, !.outcome = "empty",
                                           !.before = heap[solution]]
                /\ UNCHANGED <<heap, solution, yielded>>
           ELSE \/ \* sampler.sample_dqm raises: caught by "except Exception"
                   \* around the whole for loop
                   /\ AbandonPass
                   /\ i' = w
                   /\ PassHistory(FALSE)
                   /\ last' = [NoWindow EXCEPT !.start = w, !.outcome = "failed",
                                              !.before = heap[solution]]
                   /\ UNCHANGED <<heap, solution, yielded>>
                \/ \E task_times \in SampleTimes(info.new_jobs, DOMAIN info.new_jobs,
                                                 window_size + 1) :
                   LET r         == SolFound(heap, solution)
                       sol_found == Merge(heap[solution], task_times, info.indexes, w)
                       valid     == checkValidity(jobs, sol_found)
                       written   == Store(heap, r, sol_found)
                       \* solution = deepcopy(sol_found)
                       copy      == FreshRef(written)
                   IN  /\ Advance(w)
                       /\ i' = w
                       /\ PassHistory(valid)
                       /\ solution' = IF valid THEN copy ELSE solution
                       /\ yielded' = IF valid
                                     THEN Keep(Append(yielded, [solution |-> copy, i |-> i']))
                                     ELSE yielded
                       /\ heap' = Collect(Store(written, copy, sol_found), yielded',
                                          solution')
                       /\ last' = [start      |-> w,
                                   outcome    |-> IF valid THEN "committed" ELSE "invalid",
                                   indexes    |-> info.indexes,
                                   task_times |-> task_times,
                                   before     |-> heap[solution],
                                   sol_found  |-> sol_found]
    /\ UNCHANGED <<driver, jobs, window_size, max_time, encvars, fnvars>>

\* LeapHybridDQMSampler() raises at the top of a pass: the same handler
PbfSamplerFails ==
    /\ driver = "pbf"
    /\ pc = "run"
    /\ todo = WindowPositions(max_time, window_size)
    /\ AbandonPass
    /\ PassHistory(FALSE)
    /\ last' = [NoWindow EXCEPT !.outcome = "failed", !.before = heap[solution]]
    /\ UNCHANGED <<driver, jobs, window_size, max_time, heap, solution, yielded, i,
                   encvars, fnvars>>

-----------------------------------------------------------------------------
(* solve_with_pbruteforce_new: Solution.cut_part_out is "pass", so         *)
(* unpacking its result raises TypeError in the first loop body; nothing   *)
(* in the generator catches it                                             *)

NewWindow ==
    /\ driver = "new"
    /\ pc = "run"
    /\ pc' = "raised"
    /\ last' = [NoWindow EXCEPT !.start = iteration_number, !.outcome = "raised",
                               !.before = heap[solution]]
    /\ UNCHANGED <<driver, jobs, window_size, max_time, heap, solution, yielded,
                   iteration_number, todo, i, pass_committed, encvars, fnvars>>

Next == GreedyWindow \/ PbfWindow \/ PbfSamplerFails \/ NewWindow

Spec == Init /\ [][Next]_vars

-----------------------------------------------------------------------------
(* The encoders: get_jss_bqm (pyqubo_scheduler.py) and get_jss_dqm         *)
(* (dqm_scheduler.py), called on a whole instance or on a window           *)

drivervars == <<driver, jobs, window_size, max_time, heap, solution, yielded,
                iteration_number, todo, i, pc, last, pass_committed>>

InitEnc ==
    /\ EncIdle
    /\ FnIdle
    /\ driver = "encoder"
    /\ jobs \in EncInstances
    /\ window_size \in WindowSizes
    /\ \E seed \in GreedySeeds(jobs) \cup LooseSeeds(jobs) :
          /\ heap = (CallerSchedule :> seed)
          /\ max_time = get_result(jobs, seed) + Margin
    /\ solution = CallerSchedule
    /\ yielded = <<>>
    /\ iteration_number = 0
    /\ todo = {}
    /\ i = -1
    /\ pc = "done"
    /\ last = NoWindow
    /\ pass_committed = FALSE

\* find_time_window on a window of the schedule; its results are the
\* arguments of the encoder.  The horizon is window_size + 1
\* (partial_brute_force.py) or the window length (demo.py).
ExtractWindow ==
    /\ stage = "idle"
    /\ \E w \in WindowPositions(max_time, window_size), extra \in 0..1 :
       LET info == find_time_window(jobs, heap[solution], w, w + window_size)
       IN  /\ DOMAIN info.new_jobs # {}
           /\ problem' = [job_dict           |-> info.new_jobs,
                          max_time           |-> window_size + extra,
                          disable_till       |-> info.disable_till,
                          disable_since      |-> info.disable_since,
                          disabled_variables |-> info.disabled_variables,
                          indexes            |-> info.indexes,
                          start              |-> w]
    /\ stage' = "input"
    /\ UNCHANGED <<absurd_times, H_vars, dqm_absurd, sample, H, biases, extracted,
                   H_vars_after>>

\* Instance.solve: the whole instance; Instance.__init__ takes max_time
\* from the caller (who may choose it too short for the instance) or from
\* the makespan of a heuristic schedule
WholeInstance ==
    /\ stage = "idle"
    /\ \E extra \in -1..1 :
          /\ get_result(jobs, heap[solution]) + extra >= 1
          /\ problem' = [NoProblem EXCEPT
                           !.job_dict = jobs,
                           !.max_time = get_result(jobs, heap[solution]) + extra,
                           !.indexes  = [j \in DOMAIN jobs |->
                                           [k \in 1..Len(jobs[j]) |-> k - 1]]]
    /\ stage' = "input"
    /\ UNCHANGED <<absurd_times, H_vars, dqm_absurd, sample, H, biases, extracted,
                   H_vars_after>>

\* get_jss_bqm: JobShopScheduler(job_dict, max_time).get_bqm(...)
BuildBqm ==
    /\ stage = "input"
    /\ LET tasks == TasksOf(problem.job_dict, DOMAIN problem.job_dict)
           absurd == remove_absurd_times(tasks, problem.max_time, problem.disable_till,
                                         problem.disable_since,
                                         problem.disabled_variables)
       IN  /\ absurd_times' = absurd
           /\ H_vars_after' = get_bqm_steps(tasks, problem.max_time, absurd)
           /\ H_vars' = get_bqm_steps(tasks, problem.max_time, absurd)[4]
           /\ H' = [precedence |-> precedence_terms(tasks, problem.max_time, absurd),
                    share      |-> share_terms(tasks, problem.max_time, absurd),
                    makespan   |-> makespan_biases(tasks, problem.max_time, absurd)]
           \* without any variable self.H is still a Python number, and
           \* self.H.compile() raises AttributeError
           /\ stage' = IF H_vars_of(tasks, problem.max_time, absurd) = {}
                       THEN "raised" ELSE "bqm"
    /\ UNCHANGED <<problem, dqm_absurd, sample, biases, extracted>>

\* get_jss_dqm: JobShopScheduler(job_dict, max_time).get_dqm(...)
BuildDqm ==
    /\ stage = "input"
    /\ LET tasks  == TasksOf(problem.job_dict, DOMAIN problem.job_dict)
           absurd == dqm_remove_absurd_times(tasks, problem.max_time,
                                             problem.disable_till, problem.disable_since,
                                             problem.disabled_variables)
       IN  /\ dqm_absurd' = absurd
           \* an exception of _remove_absurd_times leaves get_dqm: no model
           /\ biases' = IF absurd.error # "none" THEN NoTerms
                        ELSE [precedence |-> dqm_precedence_entries(tasks, problem.max_time),
                              share      |-> dqm_share_entries(tasks, problem.max_time),
                              makespan   |-> dqm_makespan_biases(tasks, problem.max_time)]
    /\ stage' = "dqm"
    /\ UNCHANGED <<problem, absurd_times, H_vars, sample, H, extracted, H_vars_after>>

\* a sampler returns an assignment of the variables of the model
SampleBqm ==
    /\ stage = "bqm"
    /\ Cardinality(H_vars) <= MaxVars
    /\ sample' \in SUBSET H_vars
    /\ stage' = "sampled"
    /\ UNCHANGED <<problem, absurd_times, H_vars, dqm_absurd, H, biases, extracted,
                   H_vars_after>>

\* a decoding that takes start times the sample did not select
DecodedTimes_Any(A, task, max_t) == 0..(max_t - 1)

\* __extract_solution_from_sample, Vartype.BINARY: task_times starts as -1
\* everywhere and every selected node writes its start time; of several
\* selected nodes of one operation the last in the order of the sample wins
DecodedTimes(A, task, max_t) ==
    IF ActiveTimes(A, task, max_t) = {} THEN {-1} ELSE ActiveTimes(A, task, max_t)

\* the task_times __extract_solution_from_sample can return for a sample
extract_solution_from_sample(job_dict, max_t, A) ==
    {tt \in [DOMAIN job_dict ->
                UNION {[1..Len(job_dict[j]) -> -1..(max_t - 1)] : j \in DOMAIN job_dict}] :
        \A j \in DOMAIN job_dict :
            /\ Len(tt[j]) = Len(job_dict[j])
            /\ \A k \in 1..Len(tt[j]) :
                  tt[j][k] \in DecodedTimes(A, [job |-> j, position |-> k - 1], max_t)}

\* Instance.__extract_solution_from_sample on the sample of the bqm
ExtractSolution ==
    /\ stage = "sampled"
    /\ extracted' \in extract_solution_from_sample(problem.job_dict, problem.max_time, sample)
    /\ stage' = "decoded"
    /\ UNCHANGED <<problem, absurd_times, H_vars, dqm_absurd, sample, H, biases,
                   H_vars_after>>

NextEnc ==
    /\ ExtractWindow \/ WholeInstance \/ BuildBqm \/ BuildDqm \/ SampleBqm
       \/ ExtractSolution
    /\ UNCHANGED <<drivervars, fnvars>>

SpecEnc == InitEnc /\ [][NextEnc]_vars

-----------------------------------------------------------------------------
(* The functions of instance_parser.py called directly *)

\* solve_greedily(jobs), the shuffle giving `order`
CallSolveGreedily ==
    /\ call = NoCall
    /\ \E inst \in GenInstances(GreedyShapes) : \E order \in Perms(DOMAIN inst) :
          /\ call' = [NoCall EXCEPT !.fn = "solve_greedily", !.jobs = inst,
                                    !.order = order]
          /\ result' = solve_greedily(inst, order)

\* checkValidity(jobs, solution)
CallCheckValidity ==
    /\ call = NoCall
    /\ \E inst \in GenInstances(GenShapes) : \E sol \in DecodedSchedules(inst) :
          /\ call' = [NoCall EXCEPT !.fn = "checkValidity", !.jobs = inst,
                                    !.solution = sol]
          /\ result' = checkValidity(inst, sol)

\* find_time_window(jobs, solution, start, end)
CallFindTimeWindow ==
    /\ call = NoCall
    /\ \E inst \in GenInstances(WindowShapes) : \E sol \in GenSchedules(inst) :
       \E start \in 0..MaxStart, length \in 1..2 :
          /\ call' = [NoCall EXCEPT !.fn = "find_time_window", !.jobs = inst,
                                    !.solution = sol, !.start = start,
                                    !.end = start + length]
          /\ result' = find_time_window(inst, sol, start, start + length)

\* Instance.__init__ (instance.py) with instance= and max_time= given: the
\* assert on an empty dictionary, super().__init__(instance), and the
\* fields; nothing looks at the jobs' operations
Instance_init(instance, mt) ==
    IF instance = <<>>
    THEN [class |-> "AssertionError", jobs |-> <<>>, max_time |-> 0]
    ELSE [class |-> "Instance", jobs |-> instance, max_time |-> mt]

CallInstance ==
    /\ call = NoCall
    /\ \E inst \in BuildInputs : \E mt \in 1..MaxStart :
          /\ call' = [NoCall EXCEPT !.fn = "Instance", !.jobs = inst, !.max_time = mt]
          /\ result' = Instance_init(inst, mt)

InitFn ==
    /\ EncIdle
    /\ FnIdle
    /\ driver = "function"
    /\ jobs = <<>>
    /\ window_size = 0
    /\ max_time = 0
    /\ heap = <<>>
    /\ solution = CallerSchedule
    /\ yielded = <<>>
    /\ iteration_number = 0
    /\ todo = {}
    /\ i = -1
    /\ pc = "done"
    /\ last = NoWindow
    /\ pass_committed = FALSE

NextFn ==
    /\ CallSolveGreedily \/ CallCheckValidity \/ CallFindTimeWindow \/ CallInstance
    /\ UNCHANGED <<drivervars, encvars>>

SpecFn == InitFn /\ [][NextFn]_vars

-----------------------------------------------------------------------------
(* What a valid schedule is, stated on the schedule itself *)

\* one start time per operation
Complete(jb, sol) ==
    DOMAIN sol = DOMAIN jb /\ \A j \in DOMAIN jb : Len(sol[j]) = Len(jb[j])

\* every operation starts after its job predecessor has ended
JobOrderRespected(jb, sol) ==
    \A o \in OpsOf(sol) :
        o[2] > 0 => StartOf(sol, o[1], o[2]) >= EndOf(jb, sol, o[1], o[2] - 1)

\* the operations a machine works on during the time unit [t, t + 1)
Running(jb, sol, m, t) ==
    {o \in OpsOf(sol) : /\ MachineOf(jb, o[1], o[2]) = m
                        /\ StartOf(sol, o[1], o[2]) <= t
                        /\ t < EndOf(jb, sol, o[1], o[2])}

LastEnd(jb, sol) == SetMax({0} \cup {EndOf(jb, sol, o[1], o[2]) : o \in OpsOf(sol)})

FirstStart(sol) == SetMin({0} \cup {StartOf(sol, o[1], o[2]) : o \in OpsOf(sol)})

\* no machine works on two operations at once
MachinesExclusive(jb, sol) ==
    \A m \in MachinesOf(jb) : \A t \in FirstStart(sol)..LastEnd(jb, sol) :
        Cardinality(Running(jb, sol, m, t)) <= 1

ValidSchedule(jb, sol) ==
    Complete(jb, sol) /\ JobOrderRespected(jb, sol) /\ MachinesExclusive(jb, sol)

\* the operations of sol that lie inside the window [start, end)
InteriorOps(jb, sol, start, end) ==
    {o \in OpsOf(sol) : /\ StartOf(sol, o[1], o[2]) >= start
                        /\ EndOf(jb, sol, o[1], o[2]) <= end}

Tried == last.outcome \in {"committed", "invalid"}

-----------------------------------------------------------------------------
\* C1: every schedule a driver yields is complete, keeps every job's
\* operation order and never has a machine working on two operations at
\* once, whatever the sub-solver returned, when the caller's schedule is valid.
C1_YieldedSchedulesValid ==
    \A k \in DOMAIN yielded : ValidSchedule(jobs, heap[yielded[k].solution])

\* a sampled result that moved an operation has been merged and yielded
C1_Witness ==
    /\ driver = "pbf"
    /\ last.outcome = "committed"
    /\ yielded # <<>>
    /\ heap[yielded[Len(yielded)].solution] # last.before
    /\ Cardinality(OpsOf(last.before)) > 1

-----------------------------------------------------------------------------
\* C2: a merge changes only operations that lay inside the window
\* [start, start + window_size) of the schedule before the merge; every
\* other operation, in particular every operation starting at or after the
\* window's end, keeps its start time in the candidate and in the committed
\* schedule.
C2_MergeTouchesInteriorOnly ==
    Tried =>
        /\ \A o \in OpsOf(last.before) :
              o \notin InteriorOps(jobs, last.before, last.start, last.start + window_size)
              => StartOf(last.sol_found, o[1], o[2]) = StartOf(last.before, o[1], o[2])
        /\ \A o \in OpsOf(last.before) :
              StartOf(last.before, o[1], o[2]) >= last.start + window_size
              => StartOf(last.sol_found, o[1], o[2]) = StartOf(last.before, o[1], o[2])
        /\ last.outcome = "committed" => heap[solution] = last.sol_found

\* a committed merge moved an operation while another operation, later in
\* the same job's order or ahead of it, stayed outside the window
C2_Witness ==
    /\ last.outcome = "committed"
    /\ \E o \in OpsOf(last.before) :
          /\ o \notin InteriorOps(jobs, last.before, last.start, last.start + window_size)
          /\ o[2] = 0
    /\ \E o \in OpsOf(last.before) :
          StartOf(heap[solution], o[1], o[2]) # StartOf(last.before, o[1], o[2])

-----------------------------------------------------------------------------
\* C5: after a committed merge of the window starting at w, every interior
\* operation starts at its local start time in the sub-solution plus w, and
\* the position yielded with the schedule is w.
C5_MergeShiftsByWindowStart ==
    last.outcome = "committed" =>
        /\ \A j \in DOMAIN last.task_times : \A n \in 1..Len(last.task_times[j]) :
              StartOf(heap[solution], j, last.indexes[j][n])
                  = last.task_times[j][n] + last.start
        /\ yielded[Len(yielded)].i = last.start

-----------------------------------------------------------------------------
\* C6: a committed merge never leaves the schedule with a later completion
\* time of its last operation than it had before the merge.
C6_MakespanNeverIncreases ==
    last.outcome = "committed" =>
        LastEnd(jobs, heap[solution]) <= LastEnd(jobs, last.before)

-----------------------------------------------------------------------------
\* C7: when the candidate of a window fails the validity check, the
\* current schedule stays what it was, nothing is yielded, and the driver
\* goes on with the remaining window positions of the same pass.
C7_RejectedWindowLeavesSchedule ==
    [][last'.outcome = "invalid" =>
          /\ solution' = solution
          /\ heap'[solution'] = heap[solution]
          /\ yielded' = yielded
          /\ pc' # "raised"
          /\ todo \ {last'.start} # {} =>
                /\ todo' = todo \ {last'.start}
                /\ iteration_number' = iteration_number
                /\ pc' = "run"]_vars

\* a candidate was rejected in the middle of a pass
C7_Witness ==
    /\ last.outcome = "invalid"
    /\ pc = "run"
    /\ todo # {}
    /\ last.start \notin todo
    /\ todo # WindowPositions(max_time, window_size)

-----------------------------------------------------------------------------
\* C8: no step of a driver changes the value of a schedule object that
\* exists before the step (the caller's schedule, a yielded schedule); the
\* caller's schedule and the yielded schedules stay alive, and a committed
\* merge is a new object.
C8_SchedulesNeverModifiedInPlace ==
    [][/\ \A r \in DOMAIN heap \cap DOMAIN heap' : heap'[r] = heap[r]
       /\ CallerSchedule \in DOMAIN heap'
       /\ \A k \in DOMAIN yielded' : yielded'[k].solution \in DOMAIN heap'
       /\ last'.outcome = "committed" => solution' \notin DOMAIN heap]_vars

\* after a yield, a further merge was committed: the caller's schedule,
\* the schedule yielded before and the current one are three values
C8_Witness ==
    /\ last.outcome = "committed"
    /\ yielded # <<>>
    /\ last.before # heap[CallerSchedule]
    /\ heap[solution] # last.before
    /\ heap[solution] # heap[CallerSchedule]

-----------------------------------------------------------------------------
\* C9: a failure while encoding or solving one window leaves the driver
\* running and the current schedule unchanged, and the remaining window
\* positions of the same pass are still processed.
C9_FailureSkipsOnlyThatWindow ==
    [][(last'.outcome = "failed" /\ last'.start >= 0) =>
          /\ pc' # "raised"
          /\ solution' = solution
          /\ todo \ {last'.start} # {} =>
                /\ todo' = todo \ {last'.start}
                /\ iteration_number' = iteration_number]_vars

-----------------------------------------------------------------------------
(* What the encoders are checked against *)

\* the tasks of the problem the encoder was called on
ProblemTasks == TasksOf(problem.job_dict, DOMAIN problem.job_dict)

\* a start variable the built model still offers: a variable of the pyqubo
\* model, or a dqm case without the lagrange_absurd penalty
Survives(label) ==
    \/ stage \in {"bqm", "sampled"} /\ label \in H_vars
    \/ /\ stage = "dqm"
       /\ dqm_absurd.error = "none"
       /\ label[3] \in 0..(problem.max_time - 1)
       /\ label \notin dqm_absurd.penalised

Built == stage \in {"bqm", "sampled"} \/ (stage = "dqm" /\ dqm_absurd.error = "none")

\* the position in the sub-instance of the operation at position p of job j
LocalPosition(j, p) ==
    (CHOOSE k \in 1..Len(problem.indexes[j]) : problem.indexes[j][k] = p) - 1

InProblem(j, p) ==
    /\ j \in DOMAIN problem.indexes
    /\ \E k \in 1..Len(problem.indexes[j]) : problem.indexes[j][k] = p

\* the schedules of job_dict that start every operation inside the horizon
SchedulesWithin(job_dict, horizon) ==
    {sol \in [DOMAIN job_dict ->
                UNION {[1..Len(job_dict[j]) -> 0..(horizon - 1)] : j \in DOMAIN job_dict}] :
        \A j \in DOMAIN job_dict : Len(sol[j]) = Len(job_dict[j])}

FeasibleWithin(job_dict, horizon) ==
    \E sol \in SchedulesWithin(job_dict, horizon) :
        ValidSchedule(job_dict, sol) /\ LastEnd(job_dict, sol) <= horizon

MinEnergy ==
    SetMin({Energy(ProblemTasks, problem.max_time, A) : A \in SUBSET H_vars})

-----------------------------------------------------------------------------
\* C3: when an operation crosses the right edge of the window at op_start
\* and its job predecessor is in the sub-instance, no start variable
\* (predecessor, t) with t + predecessor_duration > op_start - start
\* survives in the model the encoder builds from the extraction.
C3_PredecessorCannotOverrunRightEdge ==
    (Built /\ problem.start >= 0) =>
        \A o \in OpsOf(heap[solution]) :
            ( /\ ReachesRight(jobs, heap[solution], problem.start,
                              problem.start + window_size, o[1], o[2])
              /\ o[2] > 0
              /\ InProblem(o[1], o[2] - 1) )
            => \A t \in 0..(problem.max_time - 1) :
                 t + DurationOf(jobs, o[1], o[2] - 1)
                     > StartOf(heap[solution], o[1], o[2]) - problem.start
                 => ~Survives(<<o[1], LocalPosition(o[1], o[2] - 1), t>>)

-----------------------------------------------------------------------------
\* C4: in a built model no surviving start variable (op, t) has
\* t < disable_till[machine] or t >= disable_since[machine], also for a
\* machine that has both entries.
C4_BoundaryPruningCoversBothEdges ==
    Built =>
        \A k \in DOMAIN ProblemTasks : \A t \in 0..(problem.max_time - 1) :
            ( \/ /\ ProblemTasks[k].machine \in DOMAIN problem.disable_till
                 /\ t < problem.disable_till[ProblemTasks[k].machine]
              \/ /\ ProblemTasks[k].machine \in DOMAIN problem.disable_since
                 /\ t >= problem.disable_since[ProblemTasks[k].machine] )
            => ~Survives(<<ProblemTasks[k].job, ProblemTasks[k].position, t>>)

-----------------------------------------------------------------------------
\* C10: when get_jss_bqm is called with its default weights on an instance
\* and a horizon in which a feasible schedule exists, every assignment of
\* minimum energy starts each operation at exactly one time.
C10_OptimumStartsEachOperationOnce ==
    ( /\ stage = "sampled"
      /\ problem.start = -1
      /\ FeasibleWithin(problem.job_dict, problem.max_time)
      /\ Energy(ProblemTasks, problem.max_time, sample) = MinEnergy )
    => \A k \in DOMAIN ProblemTasks :
         Cardinality(ActiveTimes(sample, ProblemTasks[k], problem.max_time)) = 1

-----------------------------------------------------------------------------
\* the label of the start variable of tasks[k] at time t
LabelOf(k, t) == <<ProblemTasks[k].job, ProblemTasks[k].position, t>>

\* tasks[k] and tasks[k + 1] are consecutive operations of one job
Consecutive(k) ==
    /\ k \in DOMAIN ProblemTasks
    /\ k + 1 \in DOMAIN ProblemTasks
    /\ ProblemTasks[k].job = ProblemTasks[k + 1].job
    /\ ProblemTasks[k + 1].position = ProblemTasks[k].position + 1

HorizonTimes == 0..(problem.max_time - 1)

BqmBuilt == stage \in {"bqm", "sampled"}

DqmBuilt == stage = "dqm" /\ dqm_absurd.error = "none"

-----------------------------------------------------------------------------
\* the intervals [t, t + duration[k]) and [tt, tt + duration[n]) overlap
Overlap(k, t, n, tt) ==
    \E u \in 0..(2 * problem.max_time + TotalDuration(problem.job_dict)) :
        /\ t <= u /\ u < t + ProblemTasks[k].duration
        /\ tt <= u /\ u < tt + ProblemTasks[n].duration

SameMachine(k, n) ==
    k # n /\ ProblemTasks[k].machine = ProblemTasks[n].machine

-----------------------------------------------------------------------------
\* the start times of the jobs' last operations that a table of makespan
\* biases covers: one time per job
LastStarts(table) ==
    {f \in [LastTaskIndices(ProblemTasks) -> HorizonTimes] :
        \A k \in LastTaskIndices(ProblemTasks) : LabelOf(k, f[k]) \in DOMAIN table}

\* the time the last job finishes
LastFinish(f) == SetMax({f[k] + ProblemTasks[k].duration : k \in DOMAIN f})

\* the sum of the makespan biases of the chosen variables
TotalBias(table, f) ==
    LET order == SortedSeq(DOMAIN f)
    IN  SeqSum([n \in DOMAIN order |-> table[LabelOf(order[n], f[order[n]])]])

NumberOfJobs == Cardinality(DOMAIN problem.job_dict)

\* the bias table is 2 * (number_of_jobs + 1) ** (end_time - horizon), here
\* times (number_of_jobs + 1) ** horizon, on the surviving in-horizon start
\* variables of the last operations, and orders the finishing times strictly
BiasTableOrdersMakespan(table, survives(_)) ==
    /\ DOMAIN table =
          {LabelOf(k, t) : k \in LastTaskIndices(ProblemTasks), t \in HorizonTimes}
          \cap {l \in UNION {{LabelOf(k, t) : t \in HorizonTimes} : k \in DOMAIN ProblemTasks} :
                  /\ survives(l)
                  /\ l[3] + TaskAt(ProblemTasks, l[1], l[2]).duration <= problem.max_time}
    /\ \A l \in DOMAIN table :
          table[l] = 2 * (NumberOfJobs + 1)
                           ^ (l[3] + TaskAt(ProblemTasks, l[1], l[2]).duration)
    /\ \A f, g \in LastStarts(table) :
          LastFinish(f) < LastFinish(g) => TotalBias(table, f) < TotalBias(table, g)

InH_vars(l) == l \in H_vars

AnyLabel(l) == TRUE

\* C13: the makespan bias of a start variable of a job's last operation is
\* 2 * (number_of_jobs + 1) ** (end_time - horizon), and of two choices of
\* in-horizon start times for the last operations, the one whose last job
\* finishes earlier has the strictly smaller total bias.
C13_BiasOrdersMakespan ==
    /\ (BqmBuilt /\ problem.job_dict # <<>>) =>
          BiasTableOrdersMakespan(H.makespan, InH_vars)
    /\ (DqmBuilt /\ problem.job_dict # <<>>) =>
          BiasTableOrdersMakespan(biases.makespan, AnyLabel)

\* two jobs or more, and two choices where the later finish goes with an
\* earlier end of another job
C13_Witness ==
    /\ BqmBuilt
    /\ NumberOfJobs >= 2
    /\ \E f, g \in LastStarts(H.makespan) :
          /\ LastFinish(f) < LastFinish(g)
          /\ \E k \in DOMAIN f : g[k] < f[k]

-----------------------------------------------------------------------------
\* C14: an encoder never returns a model in which some operation of the
\* sub-instance has no remaining candidate start time (building such a
\* model fails instead).
C14_NoModelWithoutCandidates ==
    Built =>
        \A k \in DOMAIN ProblemTasks : \E t \in HorizonTimes : Survives(LabelOf(k, t))

-----------------------------------------------------------------------------
\* C15: for an instance of non-empty jobs with positive durations and any
\* order of the jobs, solve_greedily gives every operation exactly one
\* start time and its schedule passes the validity check: the order inside
\* every job is kept and no machine works on two operations at once.
C15_GreedyScheduleValid ==
    call.fn = "solve_greedily" =>
        /\ Complete(call.jobs, result)
        /\ checkValidity(call.jobs, result)
        /\ ValidSchedule(call.jobs, result)

\* a greedy schedule in which an operation had to wait for its machine and
\* a second operation of a job for the first
C15_Witness ==
    /\ call.fn = "solve_greedily"
    /\ Len(call.jobs) >= 2
    /\ \E o, q \in OpsOf(result) :
          /\ o[2] = 0 /\ StartOf(result, o[1], o[2]) > 0
          /\ q[2] = 1 /\ StartOf(result, q[1], q[2]) > 0

-----------------------------------------------------------------------------
\* the place of job j in the order the jobs are processed in
OrderIndex(order, j) == CHOOSE n \in DOMAIN order : order[n] = j

\* the operations solve_greedily has placed when it comes to operation o:
\* those of an earlier position, and those of the same position of the jobs
\* earlier in the order
PlacedBefore(order, sol, o) ==
    {q \in OpsOf(sol) : \/ q[2] < o[2]
                        \/ q[2] = o[2] /\ OrderIndex(order, q[1]) < OrderIndex(order, o[1])}

\* the machine of o is free during [t, t + duration) given those operations
FreeFor(jb, order, sol, o, t) ==
    \A q \in PlacedBefore(order, sol, o) :
        MachineOf(jb, q[1], q[2]) = MachineOf(jb, o[1], o[2])
        => \/ t + DurationOf(jb, o[1], o[2]) <= StartOf(sol, q[1], q[2])
           \/ EndOf(jb, sol, q[1], q[2]) <= t

ReadyTime(jb, sol, o) == IF o[2] = 0 THEN 0 ELSE EndOf(jb, sol, o[1], o[2] - 1)

\* C16: solve_greedily starts every operation at the earliest time, not
\* before the end of its job predecessor, at which its machine is free for
\* the whole duration, given the operations of earlier positions and the
\* operations of the same position of the jobs processed before it.
C16_GreedyStartsEarliest ==
    call.fn = "solve_greedily" =>
        \A o \in OpsOf(result) :
            /\ StartOf(result, o[1], o[2]) >= ReadyTime(call.jobs, result, o)
            /\ FreeFor(call.jobs, call.order, result, o, StartOf(result, o[1], o[2]))
            /\ \A t \in ReadyTime(call.jobs, result, o)..(StartOf(result, o[1], o[2]) - 1) :
                  ~FreeFor(call.jobs, call.order, result, o, t)

\* an operation was put into a gap of its machine, before an operation
\* placed earlier
C16_Witness ==
    /\ call.fn = "solve_greedily"
    /\ \E o \in OpsOf(result) : \E q \in PlacedBefore(call.order, result, o) :
          /\ MachineOf(call.jobs, q[1], q[2]) = MachineOf(call.jobs, o[1], o[2])
          /\ EndOf(call.jobs, result, o[1], o[2]) <= StartOf(result, q[1], q[2])
          /\ o[2] > 0

-----------------------------------------------------------------------------
\* C17: for a schedule with one start time per operation, checkValidity
\* returns true exactly when every operation starts no earlier than the end
\* of its job predecessor and no two operations of a machine overlap.
C17_CheckValidityExact ==
    call.fn = "checkValidity" =>
        (result <=> (JobOrderRespected(call.jobs, call.solution)
                       /\ MachinesExclusive(call.jobs, call.solution)))

\* a schedule accepted with an operation starting the moment another one
\* of its machine ends, and one starting the moment its predecessor ends
C17_Witness ==
    /\ call.fn = "checkValidity"
    /\ result = TRUE
    /\ \E o, q \in OpsOf(call.solution) :
          /\ o[1] # q[1]
          /\ MachineOf(call.jobs, o[1], o[2]) = MachineOf(call.jobs, q[1], q[2])
          /\ EndOf(call.jobs, call.solution, o[1], o[2]) = StartOf(call.solution, q[1], q[2])
    /\ \E o \in OpsOf(call.solution) :
          /\ o[2] > 0
          /\ StartOf(call.solution, o[1], o[2]) = EndOf(call.jobs, call.solution, o[1], o[2] - 1)

-----------------------------------------------------------------------------
(* The window of a find_time_window call, in the words of the specification *)

WinStart(o) == StartOf(call.solution, o[1], o[2])
WinEnd(o) == EndOf(call.jobs, call.solution, o[1], o[2])
WinMachine(o) == MachineOf(call.jobs, o[1], o[2])

WinInterior(o) == WinStart(o) >= call.start /\ WinEnd(o) <= call.end
CrossesRightEdge(o) ==
    call.start <= WinStart(o) /\ WinStart(o) < call.end /\ call.end < WinEnd(o)
CrossesLeftEdge(o) ==
    WinStart(o) < call.start /\ call.start < WinEnd(o) /\ WinEnd(o) <= call.end
CrossesBothEdges(o) == WinStart(o) < call.start /\ call.end < WinEnd(o)
WhollyOutside(o) == WinEnd(o) <= call.start \/ call.end <= WinStart(o)

HasPredecessor(o) == o[2] > 0
HasSuccessor(o) == o[2] < Len(call.solution[o[1]]) - 1

\* the interior positions of job j
InteriorPositions(j) ==
    {p \in 0..(Len(call.solution[j]) - 1) : WinInterior(<<j, p>>)}

\* C18: find_time_window puts an operation into the sub-instance exactly
\* when it starts at or after the window's start and ends at or before its
\* end, and records the original positions in increasing order; nothing in
\* the result comes from an operation that crosses both edges or lies
\* outside the window: every boundary entry and every forbidden assignment
\* belongs to an operation crossing exactly one edge.
C18_InteriorExactlyInsideWindow ==
    call.fn = "find_time_window" =>
        LET kept == {j \in DOMAIN call.solution : InteriorPositions(j) # {}}
        IN  /\ DOMAIN result.indexes = kept
            /\ DOMAIN result.new_jobs = kept
            /\ \A j \in kept :
                  /\ {result.indexes[j][k] : k \in DOMAIN result.indexes[j]}
                        = InteriorPositions(j)
                  /\ \A k \in 1..(Len(result.indexes[j]) - 1) :
                        result.indexes[j][k] < result.indexes[j][k + 1]
                  /\ Len(result.new_jobs[j]) = Len(result.indexes[j])
                  /\ \A k \in DOMAIN result.indexes[j] :
                        result.new_jobs[j][k] = call.jobs[j][result.indexes[j][k] + 1]
            /\ \A m \in DOMAIN result.disable_till :
                  \E o \in OpsOf(call.solution) : WinMachine(o) = m /\ CrossesLeftEdge(o)
            /\ \A m \in DOMAIN result.disable_since :
                  \E o \in OpsOf(call.solution) : WinMachine(o) = m /\ CrossesRightEdge(o)
            /\ \A e \in result.disabled_variables :
                  \E o \in OpsOf(call.solution) :
                      /\ o[1] = e[1][1]
                      /\ \/ CrossesLeftEdge(o) /\ HasSuccessor(o)
                         \/ CrossesRightEdge(o) /\ HasPredecessor(o)

\* a window with an operation across both edges, an operation outside and
\* an interior operation that is not the first of its job
C18_Witness ==
    /\ call.fn = "find_time_window"
    /\ \E o, q, r \in OpsOf(call.solution) :
          /\ CrossesBothEdges(o)
          /\ WhollyOutside(q)
          /\ WinInterior(r) /\ r[2] = 1
          /\ result.indexes[r[1]] = <<1>>
    /\ DOMAIN result.disable_till = {}
    /\ DOMAIN result.disable_since = {}
    /\ result.disabled_variables = {}

-----------------------------------------------------------------------------
\* C19: after find_time_window, disable_since (boundary_right) of a machine
\* is the least op_start - start of the machine's operations crossing the
\* right edge, disable_till (boundary_left) is the greatest op_end - start
\* of its operations crossing the left edge, and a machine without such an
\* operation has no entry.
C19_BoundariesAreMinAndMax ==
    call.fn = "find_time_window" =>
        LET rights(m) == {o \in OpsOf(call.solution) : WinMachine(o) = m /\ CrossesRightEdge(o)}
            lefts(m)  == {o \in OpsOf(call.solution) : WinMachine(o) = m /\ CrossesLeftEdge(o)}
        IN  /\ DOMAIN result.disable_since = {m \in MachinesOf(call.jobs) : rights(m) # {}}
            /\ DOMAIN result.disable_till = {m \in MachinesOf(call.jobs) : lefts(m) # {}}
            /\ \A m \in DOMAIN result.disable_since :
                  /\ \E o \in rights(m) : result.disable_since[m] = WinStart(o) - call.start
                  /\ \A o \in rights(m) : result.disable_since[m] <= WinStart(o) - call.start
            /\ \A m \in DOMAIN result.disable_till :
                  /\ \E o \in lefts(m) : result.disable_till[m] = WinEnd(o) - call.start
                  /\ \A o \in lefts(m) : result.disable_till[m] >= WinEnd(o) - call.start

\* a machine with two operations across the left edge that end at
\* different times, and an operation across the right edge
C19_Witness ==
    /\ call.fn = "find_time_window"
    /\ \E o, q, r \in OpsOf(call.solution) :
          /\ CrossesLeftEdge(o) /\ CrossesLeftEdge(q)
          /\ WinMachine(o) = WinMachine(q)
          /\ WinEnd(o) < WinEnd(q)
          /\ result.disable_till[WinMachine(o)] = WinEnd(q) - call.start
          /\ CrossesRightEdge(r)
          /\ result.disable_since[WinMachine(r)] = WinStart(r) - call.start

-----------------------------------------------------------------------------
\* the label <<job, position>> names operation o: by its position in the
\* job, or by its position among the job's operations of the sub-instance
Denotes(label, o) ==
    /\ label[1] = o[1]
    /\ \/ label[2] = o[2]
       \/ /\ WinInterior(o)
          /\ label[2] = Cardinality({p \in InteriorPositions(o[1]) : p < o[2]})

\* C20: for an operation that crosses the left edge of the window and has
\* a successor in its job, find_time_window emits forbidden assignments of
\* that successor at every local time of [0, op_end - start); every
\* forbidden assignment names such a successor, or the predecessor of an
\* operation crossing the right edge, and no other operation.
C20_LeftCrossingForbidsSuccessor ==
    call.fn = "find_time_window" =>
        /\ \A o \in OpsOf(call.solution) :
              (CrossesLeftEdge(o) /\ HasSuccessor(o)) =>
                  \A x \in 0..(WinEnd(o) - call.start - 1) :
                      \E e \in result.disabled_variables :
                          e[2] = x /\ Denotes(e[1], <<o[1], o[2] + 1>>)
        /\ \A e \in result.disabled_variables :
              \E o \in OpsOf(call.solution) :
                  \/ /\ CrossesLeftEdge(o) /\ HasSuccessor(o)
                     /\ Denotes(e[1], <<o[1], o[2] + 1>>)
                  \/ /\ CrossesRightEdge(o) /\ HasPredecessor(o)
                     /\ Denotes(e[1], <<o[1], o[2] - 1>>)

-----------------------------------------------------------------------------
\* the start times written back as an assignment of the model: the variable
\* of every operation that has a start time is 1, every other variable 0
ReEncode(tt) ==
    {<<j, k - 1, tt[j][k]>> : <<j, k>> \in
        {q \in (DOMAIN tt) \X (1..SetMax({0} \cup {Len(tt[j]) : j \in DOMAIN tt})) :
            q[2] <= Len(tt[q[1]]) /\ tt[q[1]][q[2]] # -1}}

Decoded == stage = "decoded"

\* C21: for every assignment of the model's binary variables, also one
\* that selects no start time or several start times for an operation,
\* decoding it into start times and writing these back as an assignment of
\* the same model gives an objective value that is not higher.
C21_DecodeReEncodeNotWorse ==
    Decoded =>
        /\ ReEncode(extracted) \subseteq H_vars
        /\ Energy(ProblemTasks, problem.max_time, ReEncode(extracted))
              <= Energy(ProblemTasks, problem.max_time, sample)

\* a sample with two start times for one operation and none for another,
\* whose decoding has a strictly lower objective value
C21_Witness ==
    /\ Decoded
    /\ \E k, n \in DOMAIN ProblemTasks :
          /\ Cardinality(ActiveTimes(sample, ProblemTasks[k], problem.max_time)) >= 2
          /\ ActiveTimes(sample, ProblemTasks[n], problem.max_time) = {}
          /\ extracted[ProblemTasks[n].job][ProblemTasks[n].position + 1] = -1
    /\ Energy(ProblemTasks, problem.max_time, ReEncode(extracted))
          < Energy(ProblemTasks, problem.max_time, sample)

-----------------------------------------------------------------------------
\* the step that leaves the last window of a pass, none of whose windows
\* was committed
PassEndsWithoutCommit ==
    /\ iteration_number' = iteration_number + 1
    /\ last'.outcome \in {"empty", "invalid"}
    /\ ~pass_committed

\* C22: when a full pass over all window positions commits no candidate,
\* the driver runs no further pass and the generator ends, even when fewer
\* than `times` passes have been run.
C22_StopsAfterPassWithoutCommit ==
    [][PassEndsWithoutCommit => pc' = "done"]_vars

-----------------------------------------------------------------------------
\* a pass is about to start: the inner loop has all its positions to visit
PassStarts == pc = "run" /\ todo = WindowPositions(max_time, window_size)

\* C23: at the start of every outer iteration max_time is the makespan of
\* the driver's current schedule plus the margin, so the pass covers the
\* window positions [0, makespan + margin - window_size) of the schedule as
\* it stands at that pass.
C23_MaxTimeFollowsCurrentSchedule ==
    PassStarts =>
        /\ max_time = get_result(jobs, heap[solution]) + MarginOf(driver)
        /\ todo = WindowPositions(get_result(jobs, heap[solution]) + MarginOf(driver),
                                  window_size)

-----------------------------------------------------------------------------
\* the step after which the running pass is over: the next pass starts or
\* the generator ends
PassIsLeft == pc = "run" /\ (iteration_number' # iteration_number \/ pc' # "run")

\* C24: the generator terminates having tried, in each pass, every window
\* position of [0, max_time - window_size) exactly once: a pass is left
\* only by the step that tries the last position not yet tried.
C24_EveryPassTriesEveryWindow ==
    [][PassIsLeft => todo \ {last'.start} = {}]_vars

-----------------------------------------------------------------------------
\* job data with a job without operations or an operation whose duration
\* is zero or negative
Malformed(jb) ==
    \E j \in DOMAIN jb :
        \/ Len(jb[j]) = 0
        \/ \E k \in DOMAIN jb[j] : jb[j][k][2] <= 0

\* C25: constructing an Instance from job data in which a job has no
\* operation, or an operation a zero or negative duration, fails with an
\* invalid-instance error and produces no Instance.
C25_MalformedInstanceRejected ==
    (call.fn = "Instance" /\ Malformed(call.jobs)) =>
        result.class \notin {"Instance"}

-----------------------------------------------------------------------------
\* C26: for every start variable (op, t) that survives the pruning, the
\* whole interval of the operation lies in the available range of its
\* machine: t >= disable_till[machine] and
\* t + duration <= disable_since[machine], so that no solution of the
\* sub-problem overlaps an operation that crosses a window edge.
C26_SurvivorsStayInsideBoundaries ==
    Built =>
        \A k \in DOMAIN ProblemTasks : \A t \in 0..(problem.max_time - 1) :
            Survives(<<ProblemTasks[k].job, ProblemTasks[k].position, t>>) =>
                /\ ProblemTasks[k].machine \in DOMAIN problem.disable_till
                      => t >= problem.disable_till[ProblemTasks[k].machine]
                /\ ProblemTasks[k].machine \in DOMAIN problem.disable_since
                      => t + ProblemTasks[k].duration
                            <= problem.disable_since[ProblemTasks[k].machine]

-----------------------------------------------------------------------------
\* the position operation q has among the operations of its job in the
\* sub-instance
SubInstancePosition(q) == Cardinality({p \in InteriorPositions(q[1]) : p < q[2]})

\* the operation a forbidden assignment is emitted for: the job successor
\* of an operation crossing the left edge, or the job predecessor of an
\* operation crossing the right edge
Neighbours(j) ==
    {<<j, o[2] + 1>> : o \in {c \in OpsOf(call.solution) :
                                c[1] = j /\ CrossesLeftEdge(c) /\ HasSuccessor(c)}}
    \cup
    {<<j, o[2] - 1>> : o \in {c \in OpsOf(call.solution) :
                                c[1] = j /\ CrossesRightEdge(c) /\ HasPredecessor(c)}}

\* C27: every forbidden assignment (label, local_time) find_time_window
\* returns names an operation of the returned sub-instance by the position
\* that operation has inside the sub-instance, and its local time lies in
\* 0 <= local_time < end - start.
C27_ForbiddenAssignmentsNameSubInstance ==
    call.fn = "find_time_window" =>
        \A e \in result.disabled_variables :
            /\ e[1][1] \in DOMAIN result.new_jobs
            /\ e[1][2] \in 0..(Len(result.new_jobs[e[1][1]]) - 1)
            /\ \E q \in Neighbours(e[1][1]) :
                  WinInterior(q) /\ e[1][2] = SubInstancePosition(q)
            /\ 0 <= e[2]
            /\ e[2] < call.end - call.start

-----------------------------------------------------------------------------
\* C28: the validity check returns false for every schedule that holds a
\* negative start time, so a schedule decoded from an assignment that
\* leaves an operation without a start (the marker -1) is never reported
\* valid and never merged.
C28_NegativeStartIsInvalid ==
    ( /\ call.fn = "checkValidity"
      /\ \E o \in OpsOf(call.solution) : StartOf(call.solution, o[1], o[2]) < 0 )
    => result = FALSE

-----------------------------------------------------------------------------
\* the sum of the durations of the operations of job j before position p,
\* and of the operations from position p on
DurationBefore(j, p) ==
    SeqSum([k \in 1..Len(problem.job_dict[j]) |->
              IF k - 1 < p THEN problem.job_dict[j][k][2] ELSE 0])
DurationFrom(j, p) ==
    SeqSum([k \in 1..Len(problem.job_dict[j]) |->
              IF k - 1 >= p THEN problem.job_dict[j][k][2] ELSE 0])

TooEarly(j, p, t) == t < DurationBefore(j, p)
TooLate(j, p, t) == t > problem.max_time - DurationFrom(j, p)

\* the encoder was given no boundary and no forbidden assignment
NoBoundaries ==
    /\ DOMAIN problem.disable_till = {}
    /\ DOMAIN problem.disable_since = {}
    /\ problem.disabled_variables = {}

\* the schedules of the problem that keep the order inside every job and
\* finish within the horizon
InHorizonSchedules ==
    {sol \in SchedulesWithin(problem.job_dict, problem.max_time) :
        /\ JobOrderRespected(problem.job_dict, sol)
        /\ LastEnd(problem.job_dict, sol) <= problem.max_time}

\* C29: the too-early and too-late rules of _remove_absurd_times prune
\* (op, t) exactly when t is less than the sum of the durations of op's
\* predecessors in its job, or greater than the horizon minus the sum of
\* the durations of op and its successors; so no start time used by a
\* schedule that keeps the job order and finishes within the horizon is
\* pruned by these rules.
C29_EarlyLatePruningExact ==
    Built =>
        /\ \A k \in DOMAIN ProblemTasks : \A t \in HorizonTimes :
              LET j == ProblemTasks[k].job
                  p == ProblemTasks[k].position
              IN  /\ (TooEarly(j, p, t) \/ TooLate(j, p, t)) => ~Survives(<<j, p, t>>)
                  /\ NoBoundaries =>
                        (~Survives(<<j, p, t>>) => (TooEarly(j, p, t) \/ TooLate(j, p, t)))
        /\ NoBoundaries =>
              \A sol \in InHorizonSchedules : \A o \in OpsOf(sol) :
                  Survives(<<o[1], o[2], StartOf(sol, o[1], o[2])>>)

\* a model built without boundaries for a job of two operations: a start
\* of the second is pruned as too early, a start of the first as too late,
\* and a schedule within the horizon exists
C29_Witness ==
    /\ Built
    /\ NoBoundaries
    /\ InHorizonSchedules # {}
    /\ \E k \in DOMAIN ProblemTasks : \E t, u \in HorizonTimes :
          /\ Consecutive(k)
          /\ TooLate(ProblemTasks[k].job, ProblemTasks[k].position, t)
          /\ ~TooEarly(ProblemTasks[k].job, ProblemTasks[k].position, t)
          /\ ~Survives(LabelOf(k, t))
          /\ TooEarly(ProblemTasks[k + 1].job, ProblemTasks[k + 1].position, u)
          /\ ~TooLate(ProblemTasks[k + 1].job, ProblemTasks[k + 1].position, u)
          /\ ~Survives(LabelOf(k + 1, u))

-----------------------------------------------------------------------------
\* get_bqm has run its steps (and then compiled the model or failed to)
GetBqmRan == stage \in {"bqm", "sampled", "decoded", "raised"} /\ H_vars_after # <<>>

\* the labels of absurd_times for which the bias loop of get_bqm reaches
\* its test: a last task of a job ending within the horizon
BiasLoopMeetsAbsurd ==
    \E k \in LastTaskIndices(ProblemTasks) : \E t \in HorizonTimes :
        /\ t + ProblemTasks[k].duration <= problem.max_time
        /\ LabelOf(k, t) \in absurd_times.labels

\* C30: pruning is never undone while the model is built: after each of
\* the one-start, precedence, machine-sharing and makespan-bias steps of
\* get_bqm no label of absurd_times has a variable, and the variables of
\* the finished model are disjoint from the pruned labels.
C30_PrunedLabelsGetNoVariable ==
    GetBqmRan =>
        /\ \A n \in 1..4 : H_vars_after[n] \cap absurd_times.labels = {}
        /\ H_vars = H_vars_after[4]
        /\ H_vars \cap absurd_times.labels = {}

\* a model with products of the precedence and the machine-sharing step
\* and with biases, built while absurd_times holds a label of a last task
\* that ends within the horizon
C30_Witness ==
    /\ stage = "bqm"
    /\ H_vars # {}
    /\ H.precedence # {}
    /\ H.share # {}
    /\ DOMAIN H.makespan # {}
    /\ BiasLoopMeetsAbsurd

====
